---- MODULE Spec2Model ----
(***************************************************************************)
(* A model of app/utils/ocr_pdf_loader.py: the OCREnabledPDFLoader class.  *)
(*                                                                         *)
(*   Spec         the loader: __init__, then one call of load, with the    *)
(*                local OCR adapter _extract_with_ocr stepped through.     *)
(*   SpecCombine  the pure function _combine_ocr_results applied to every  *)
(*                bounded list of OCR tokens, and to its reorderings.      *)
(*   SpecCloud    the cloud-first loader of the tests, following the       *)
(*                protocol of the Cloud OCR Adapter.                       *)
(*                                                                         *)
(* Strings are sequences of one-character strings, so that str.strip,      *)
(* str.join and len are computed and not assumed.                          *)
(***************************************************************************)
EXTENDS Integers, Sequences, FiniteSets, TLC

VARIABLES
    \* ---- the loader object (fields set by __init__)
    use_ocr_fallback,     \* self.use_ocr_fallback
    ocr_engine,           \* self._ocr_engine: "None" or "RapidOCR"
    min_text_threshold,   \* self.min_text_threshold
    \* ---- one call of load
    pc,                   \* position in load / _extract_with_ocr
    native_log,           \* what each call of PyPDFLoader.load gave, in order
    ocr_calls,            \* number of calls of _extract_with_ocr so far
    ocr_documents,        \* what the call of _extract_with_ocr gave load
    ret,                  \* what load gave its caller
    \* ---- one call of _extract_with_ocr
    documents,            \* the list being built
    temp_dir,             \* whether the TemporaryDirectory exists
    image_files,          \* sorted(image_files): a sequence of image names
    idx,                  \* the loop variable i of enumerate
    elements,             \* what partition_pdf returned
    engine_log,           \* what self._ocr_engine gave for each image so far
    \* ---- what is remembered of the constructor call and the adapter call
    ctor_args,            \* the use_ocr_fallback argument, and whether RapidOCR started
    ocr_exit,             \* how the call of _extract_with_ocr ended
    dirs_made,            \* number of TemporaryDirectory objects made so far
    \* ---- the cloud-first loader (one call of its load)
    cloud_pc,             \* position in the protocol
    cloud_file,           \* the Uploaded-File Handle: "None" or the remote id
    cloud_log,            \* the client calls made so far, in order
    cloud_primary,        \* the adapter's result or error before cleanup
    cloud_ret,            \* what load gave its caller
    \* ---- _combine_ocr_results on its own
    cpc,                  \* "in", "out", "reordered"
    ocr_results,          \* the argument
    combined,             \* the result for ocr_results
    combined_before       \* the result for the list before it was reordered

loaderVars  == <<use_ocr_fallback, ocr_engine, min_text_threshold>>
loadVars    == <<pc, native_log, ocr_calls, ocr_documents, ret>>
adapterVars == <<documents, temp_dir, image_files, idx, elements, engine_log>>
combineVars == <<cpc, ocr_results, combined, combined_before>>
obsVars     == <<ctor_args, ocr_exit, dirs_made>>
cloudVars   == <<cloud_pc, cloud_file, cloud_log, cloud_primary, cloud_ret>>
vars == <<loaderVars, loadVars, adapterVars, combineVars, obsVars, cloudVars>>

(***************************************************************************)
(* Bounds of the model.                                                    *)
(***************************************************************************)
MaxTokens == 3        \* longest list of OCR tokens given to the reconstructor
MaxNativeDocs == 2    \* most Documents one native extraction returns
MaxThreshold == 3     \* largest min_text_threshold tried
MaxImages == 3        \* most image files one partition_pdf call writes
MaxElements == 2      \* most elements one partition_pdf call returns

(***************************************************************************)
(* Strings.                                                                *)
(***************************************************************************)
Whitespace == {" ", "\n"}

RECURSIVE lstrip(_)
lstrip(s) == IF s # <<>> /\ Head(s) \in Whitespace THEN lstrip(Tail(s)) ELSE s

RECURSIVE rstrip(_)
rstrip(s) ==
    IF s # <<>> /\ s[Len(s)] \in Whitespace
    THEN rstrip(SubSeq(s, 1, Len(s) - 1))
    ELSE s

\* str.strip(): leading and trailing whitespace removed
strip(s) == rstrip(lstrip(s))

\* sep.join(parts)
RECURSIVE join(_, _)
join(sep, parts) ==
    IF parts = <<>> THEN <<>>
    ELSE IF Len(parts) = 1 THEN parts[1]
    ELSE parts[1] \o sep \o join(sep, Tail(parts))

(***************************************************************************)
(* _combine_ocr_results (lines 190-228).  An OCR result is                 *)
(* [bbox, text, confidence]; only bbox[0] = (x, y), the top-left corner,   *)
(* and the text are read.                                                  *)
(***************************************************************************)
Y_TOLERANCE == 10

abs(n) == IF n < 0 THEN -n ELSE n

\* the sort key of line 204, (x[0][0][1], x[0][0][0]), compared as Python
\* compares tuples
\* (KeyLess_y_only: the key without its second component, a fault that
\* C10_EqualsReference detects)
KeyLess_y_only(a, b) == a.y < b.y
KeyLess(a, b) == a.y < b.y \/ (a.y = b.y /\ a.x < b.x)

\* sorted() is stable: an element goes after every element that does not
\* compare greater
RECURSIVE InsertSorted(_, _)
InsertSorted(s, t) ==
    IF s = <<>> THEN <<t>>
    ELSE IF KeyLess(t, s[Len(s)])
         THEN Append(InsertSorted(SubSeq(s, 1, Len(s) - 1), t), s[Len(s)])
         ELSE Append(s, t)

RECURSIVE sorted(_)
sorted(s) ==
    IF s = <<>> THEN <<>>
    ELSE InsertSorted(sorted(SubSeq(s, 1, Len(s) - 1)), s[Len(s)])

\* line 216: does this result start a new line?  current_line_y is <<>> for
\* None and <<y>> otherwise
\* (NewLine_inclusive: >= for >, a fault that C9_ToleranceFromLineHead detects)
NewLine_inclusive(current_line_y, y_pos) ==
    current_line_y = <<>> \/ abs(y_pos - current_line_y[1]) >= Y_TOLERANCE
NewLine(current_line_y, y_pos) ==
    current_line_y = <<>> \/ abs(y_pos - current_line_y[1]) > Y_TOLERANCE

\* one iteration of the loop of lines 211-222
LoopBody(st, result) ==
    IF NewLine(st.current_line_y, result.y)
    THEN [text_lines |->
              IF st.current_line_text # <<>>
              THEN Append(st.text_lines, join(<<" ">>, st.current_line_text))
              ELSE st.text_lines,
          current_line_text |-> <<result.text>>,
          current_line_y |-> <<result.y>>]
    ELSE [st EXCEPT !.current_line_text = Append(@, result.text)]

RECURSIVE Loop(_, _)
Loop(st, rest) ==
    IF rest = <<>> THEN st ELSE Loop(LoopBody(st, Head(rest)), Tail(rest))

_combine_ocr_results(results) ==
    IF results = <<>> THEN <<>>
    ELSE LET st == Loop([text_lines |-> <<>>,
                         current_line_y |-> <<>>,
                         current_line_text |-> <<>>],
                        sorted(results))
             text_lines ==
                 IF st.current_line_text # <<>>
                 THEN Append(st.text_lines, join(<<" ">>, st.current_line_text))
                 ELSE st.text_lines
         IN  join(<<"\n">>, text_lines)

(***************************************************************************)
(* Documents.  A Document is its page_content and the metadata keys the    *)
(* loader reads or writes; a key that is not set holds Absent.             *)
(***************************************************************************)
FilePath == "doc.pdf"
Absent == "<absent>"

Document(content, page, method, error, image_source, element_type) ==
    [page_content |-> content, source |-> FilePath, page |-> page,
     extraction_method |-> method, error |-> error,
     image_source |-> image_source, element_type |-> element_type]

(***************************************************************************)
(* The native extractor, PyPDFLoader(file_path).load(): it raises, or it   *)
(* returns one Document per page, with source and the 0-based page and no  *)
(* extraction_method.  Each call has an outcome of its own.                *)
(***************************************************************************)
NativeContents == { <<" ">>, <<"a">>, <<" ", "a", "b", "\n">> }
ErrorTexts == {"e1", "e2"}

NativeDocs(contents) ==
    [k \in 1..Len(contents) |->
        Document(contents[k], k - 1, Absent, Absent, Absent, Absent)]

Raised(e) == [kind |-> "raised", docs |-> <<>>, error |-> e]
Returned(docs) == [kind |-> "returned", docs |-> docs, error |-> Absent]
NotYet == [kind |-> "none", docs |-> <<>>, error |-> Absent]

NativeOutcomes ==
    {Raised(e) : e \in ErrorTexts}
    \cup {Returned(NativeDocs(c)) :
            c \in UNION {[1..n -> NativeContents] : n \in 0..MaxNativeDocs}}

(***************************************************************************)
(* __init__ (lines 42-56).  engine_ok tells whether the RapidOCR           *)
(* constructor returned (line 52) or raised (lines 54-56).                 *)
(***************************************************************************)
__init__(p_use_ocr_fallback, p_min_text_threshold, engine_ok) ==
    /\ min_text_threshold = p_min_text_threshold
    /\ IF p_use_ocr_fallback
       THEN IF engine_ok
            THEN ocr_engine = "RapidOCR" /\ use_ocr_fallback = TRUE
            ELSE ocr_engine = "None" /\ use_ocr_fallback = FALSE
       ELSE ocr_engine = "None" /\ use_ocr_fallback = FALSE

Idle == /\ cpc = "idle"
        /\ ocr_results = <<>>
        /\ combined = <<>>
        /\ combined_before = <<>>

NoFrame == /\ documents = <<>>
           /\ temp_dir = FALSE
           /\ image_files = <<>>
           /\ idx = 0
           /\ elements = <<>>
           /\ engine_log = <<>>

\* no call of _extract_with_ocr yet
NoAdapterCall == ocr_exit = "none" /\ dirs_made = 0

\* the cloud-first loader is not in use
CloudIdle ==
    /\ cloud_pc = "idle"
    /\ cloud_file = "None"
    /\ cloud_log = <<>>
    /\ cloud_primary = NotYet
    /\ cloud_ret = NotYet

Init ==
    /\ \E u \in BOOLEAN, t \in 0..MaxThreshold, ok \in BOOLEAN :
         /\ __init__(u, t, ok)
         /\ ctor_args = [use_ocr_fallback |-> u, engine_ok |-> ok]
    /\ pc = "load"
    /\ native_log = <<>>
    /\ ocr_calls = 0
    /\ ocr_documents = <<>>
    /\ ret = NotYet
    /\ NoFrame
    /\ NoAdapterCall
    /\ Idle
    /\ CloudIdle

(***************************************************************************)
(* load (lines 58-111).                                                    *)
(***************************************************************************)
RECURSIVE SumStripped(_)
SumStripped(docs) ==
    IF docs = <<>> THEN 0
    ELSE Len(strip(Head(docs).page_content)) + SumStripped(Tail(docs))

\* line 73
total_text_length(docs) == SumStripped(docs)

\* line 75
\* (Sufficient_strict: > for >=, a fault that C3_SufficientNativeAccepted detects)
Sufficient_strict(docs) == total_text_length(docs) > min_text_threshold
Sufficient(docs) == total_text_length(docs) >= min_text_threshold

\* lines 68-82: what the first attempt leads to: a return (line 77), or the
\* fallback, after too little text (line 79) and after an exception alike
\* (lines 81-82)
\* (FirstAttempt_no_handler: the except clause left out, a fault that
\* C19_FirstRaiseFallsBack detects)
FirstAttempt_no_handler(out) ==
    IF out.kind = "raised"
    THEN [ret |-> Raised(out.error), pc |-> "done"]
    ELSE IF Sufficient(out.docs)
         THEN [ret |-> Returned(out.docs), pc |-> "done"]
         ELSE [ret |-> NotYet, pc |-> "ocr_fallback"]
FirstAttempt(out) ==
    IF out.kind = "returned" /\ Sufficient(out.docs)
    THEN [ret |-> Returned(out.docs), pc |-> "done"]
    ELSE [ret |-> NotYet, pc |-> "ocr_fallback"]

\* lines 68-82: the first native extraction, inside try ... except Exception
LoadNativeFirst ==
    /\ pc = "load"
    /\ \E out \in NativeOutcomes :
        /\ native_log' = Append(native_log, out)
        /\ ret' = FirstAttempt(out).ret
        /\ pc' = FirstAttempt(out).pc
    /\ UNCHANGED <<loaderVars, ocr_calls, ocr_documents, adapterVars, combineVars, obsVars, cloudVars>>

\* line 85
\* (OcrEnabled_always: the condition left out, a fault that
\* C18_DisabledNeverCallsOcr detects)
OcrEnabled_always == TRUE
OcrEnabled == use_ocr_fallback /\ ocr_engine # "None"

\* line 85, condition false: on to the final attempt
LoadSkipOcr ==
    /\ pc = "ocr_fallback"
    /\ ~OcrEnabled
    /\ pc' = "final"
    /\ UNCHANGED <<loaderVars, native_log, ocr_calls, ocr_documents, ret,
                   adapterVars, combineVars, obsVars, cloudVars>>

\* line 87: the call of _extract_with_ocr
LoadCallOcr ==
    /\ pc = "ocr_fallback"
    /\ OcrEnabled
    /\ ocr_calls' = ocr_calls + 1
    /\ documents' = <<>>
    /\ pc' = "ocr_import"
    /\ UNCHANGED <<loaderVars, native_log, ocr_documents, ret,
                   temp_dir, image_files, idx, elements, engine_log,
                   combineVars, obsVars, cloudVars>>

\* lines 93-94: the call of line 87 raised.  _extract_with_ocr lets no
\* Exception out (lines 180-186), so this is an adapter that was replaced,
\* by a subclass or a test double; load handles it all the same.
LoadOcrRaised ==
    /\ pc = "ocr_fallback"
    /\ OcrEnabled
    /\ ocr_calls' = ocr_calls + 1
    /\ ocr_exit' = "raised"
    /\ pc' = "final"
    /\ UNCHANGED <<loaderVars, native_log, ocr_documents, ret,
                   adapterVars, combineVars, ctor_args, dirs_made, cloudVars>>

\* lines 88-92: what load does with the adapter's result
\* (AcceptOcr_always: the test left out; AcceptOcr_inverted: the test negated;
\* faults that C5_FinalNativeRerun and C4_OcrResultAccepted detect)
AcceptOcr_always(docs) == TRUE
AcceptOcr_inverted(docs) == docs = <<>>
AcceptOcr(docs) == docs # <<>>

LoadOcrReturned ==
    /\ pc = "ocr_return"
    /\ ocr_documents' = documents
    /\ IF AcceptOcr(documents)
       THEN ret' = Returned(documents) /\ pc' = "done"
       ELSE ret' = ret /\ pc' = "final"
    /\ documents' = <<>>
    /\ temp_dir' = temp_dir
    /\ image_files' = <<>>
    /\ idx' = 0
    /\ elements' = <<>>
    /\ engine_log' = <<>>
    /\ UNCHANGED <<loaderVars, native_log, ocr_calls, combineVars, obsVars, cloudVars>>

\* lines 103-111
\* (FailedDocument_no_error: the error key left out, a fault that
\* C6_FailedPlaceholder detects)
FailedDocument_no_error(e) == Document(<<>>, 0, "failed", Absent, Absent, Absent)
FailedDocument(e) == Document(<<>>, 0, "failed", e, Absent, Absent)

\* lines 97-111: what the final attempt gives the caller of load
\* (FinalResult_no_handler: the except clause left out, a fault that
\* C1_LoadNeverRaises detects)
FinalResult_no_handler(out) ==
    IF out.kind = "returned" THEN Returned(out.docs) ELSE Raised(out.error)
FinalResult(out) ==
    IF out.kind = "returned"
    THEN Returned(out.docs)
    ELSE Returned(<<FailedDocument(out.error)>>)

LoadNativeFinal ==
    /\ pc = "final"
    /\ \E out \in NativeOutcomes :
        /\ native_log' = Append(native_log, out)
        /\ ret' = FinalResult(out)
    /\ pc' = "done"
    /\ UNCHANGED <<loaderVars, ocr_calls, ocr_documents, adapterVars, combineVars, obsVars, cloudVars>>

(***************************************************************************)
(* The collaborators of _extract_with_ocr.                                 *)
(***************************************************************************)
Hello == <<"H", "e", "l", "l", "o">>
World == <<"W", "o", "r", "l", "d">>
Top == <<"T", "o", "p">>
SecondLine == <<"S", "e", "c", "o", "n", "d", " ", "l", "i", "n", "e">>

OcrResult(x, y, text) == [x |-> x, y |-> y, text |-> text]

\* partition_pdf writes image files into temp_dir; a path is its number and
\* its extension, and paths sort by number
ImageUniverse ==
    {[n |-> k, ext |-> IF k % 2 = 1 THEN "png" ELSE "jpg"] : k \in 1..MaxImages}

RECURSIVE Ascending(_)
Ascending(S) ==
    IF S = {} THEN <<>>
    ELSE LET m == CHOOSE a \in S : \A b \in S : a.n <= b.n
         IN  <<m>> \o Ascending(S \ {m})

\* line 140: the *.jpg files, then the *.png files
Listing(written) ==
    Ascending({f \in written : f.ext = "jpg"})
    \o Ascending({f \in written : f.ext = "png"})

RECURSIVE InsertPath(_, _)
InsertPath(s, f) ==
    IF s = <<>> THEN <<f>>
    ELSE IF f.n < s[Len(s)].n
         THEN Append(InsertPath(SubSeq(s, 1, Len(s) - 1), f), s[Len(s)])
         ELSE Append(s, f)

\* line 143: sorted(image_files)
RECURSIVE sorted_paths(_)
sorted_paths(s) ==
    IF s = <<>> THEN <<>>
    ELSE InsertPath(sorted_paths(SubSeq(s, 1, Len(s) - 1)), s[Len(s)])

\* the elements partition_pdf returns; each has a text attribute
ElementKinds == { [type |-> "NarrativeText", text |-> <<"t">>],
                  [type |-> "Title", text |-> <<" ">>] }

PartitionOutcomes ==
    {[kind |-> "raised", written |-> {}, elements |-> <<>>]}
    \cup {[kind |-> "returned", written |-> w, elements |-> e] :
            w \in SUBSET ImageUniverse,
            e \in UNION {[1..n -> ElementKinds] : n \in 0..MaxElements}}

\* self._ocr_engine(path) raises, or gives (result, _): result is None
\* (here <<>>) or a list of [bbox, text, confidence]
EngineResults ==
    { <<>>,
      <<OcrResult(10, 10, <<" ">>)>>,
      <<OcrResult(60, 10, World), OcrResult(10, 10, Hello)>> }

EngineOutcomes ==
    {[kind |-> "raised", result |-> <<>>]}
    \cup {[kind |-> "returned", result |-> r] : r \in EngineResults}

(***************************************************************************)
(* _extract_with_ocr (lines 113-188).                                      *)
(***************************************************************************)
\* line 128: the import; ImportError is caught at lines 180-181
OcrImport ==
    /\ pc = "ocr_import"
    /\ \E available \in BOOLEAN :
         /\ pc' = IF available THEN "ocr_tempdir" ELSE "ocr_return"
         /\ ocr_exit' = IF available THEN ocr_exit ELSE "unavailable"
    /\ UNCHANGED <<loaderVars, native_log, ocr_calls, ocr_documents, ret,
                   adapterVars, combineVars, ctor_args, dirs_made, cloudVars>>

\* line 131: with tempfile.TemporaryDirectory() as temp_dir
OcrTempDir ==
    /\ pc = "ocr_tempdir"
    /\ temp_dir' = TRUE
    /\ dirs_made' = dirs_made + 1
    /\ pc' = "ocr_partition"
    /\ UNCHANGED <<loaderVars, native_log, ocr_calls, ocr_documents, ret,
                   documents, image_files, idx, elements, engine_log,
                   combineVars, ctor_args, ocr_exit, cloudVars>>

\* line 131: leaving the with block, by its end or by an exception, removes
\* the directory (TemporaryDirectory.__exit__)
\* (LeaveWith_kept: the directory left behind, a fault that
\* C13_TempDirReleased detects)
LeaveWith_kept(dir) == dir
LeaveWith(dir) == FALSE

\* lines 132-142: partition_pdf and the listing of the images.  When it
\* raises, the with block is left (the directory goes) and lines 185-186
\* catch the exception
OcrPartition ==
    /\ pc = "ocr_partition"
    /\ \E out \in PartitionOutcomes :
         IF out.kind = "raised"
         THEN /\ temp_dir' = LeaveWith(temp_dir)
              /\ ocr_exit' = "partition_raised"
              /\ pc' = "ocr_return"
              /\ UNCHANGED <<image_files, idx, elements>>
         ELSE /\ elements' = out.elements
              /\ image_files' = sorted_paths(Listing(out.written))
              /\ idx' = 0
              /\ temp_dir' = temp_dir
              /\ ocr_exit' = ocr_exit
              /\ pc' = IF out.written # {} THEN "ocr_image" ELSE "ocr_text"
    /\ UNCHANGED <<loaderVars, native_log, ocr_calls, ocr_documents, ret,
                   documents, engine_log, combineVars, ctor_args, dirs_made,
                   cloudVars>>

\* lines 144-164: the body of the loop for image i (0-based) of the sorted
\* list, with the outcome o of the engine
\* (ImageStep_untagged: the extraction_method key left out, a fault that
\* C7_MethodsOfTheCode detects; ImageStep_positional: page counted along the
\* result and not along the images, a fault that C14_PageIsImageIndex detects)
ImageStep_positional(docs, i, image_path, o) ==
    IF o.kind = "raised" THEN docs
    ELSE IF o.result = <<>> THEN docs
    ELSE LET page_text == _combine_ocr_results(o.result)
         IN  IF strip(page_text) # <<>>
             THEN Append(docs, Document(page_text, Len(docs) + 1, "ocr", Absent,
                                        image_path, Absent))
             ELSE docs
ImageStep_untagged(docs, i, image_path, o) ==
    IF o.kind = "raised" THEN docs
    ELSE IF o.result = <<>> THEN docs
    ELSE LET page_text == _combine_ocr_results(o.result)
         IN  IF strip(page_text) # <<>>
             THEN Append(docs, Document(page_text, i + 1, Absent, Absent,
                                        image_path, Absent))
             ELSE docs
ImageStep(docs, i, image_path, o) ==
    IF o.kind = "raised" THEN docs
    ELSE IF o.result = <<>> THEN docs
    ELSE LET page_text == _combine_ocr_results(o.result)
         IN  IF strip(page_text) # <<>>
             THEN Append(docs, Document(page_text, i + 1, "ocr", Absent,
                                        image_path, Absent))
             ELSE docs

\* lines 143 and 162-164: where the loop goes after image i with outcome o;
\* an exception of the engine is caught inside the loop, which continues
\* (AfterImage_abort: the exception ends the loop, a fault that
\* C11_FailureSkipsOneImage detects)
AfterImage_abort(i, o) ==
    IF o.kind = "raised" THEN "ocr_text"
    ELSE IF i + 1 < Len(image_files) THEN "ocr_image" ELSE "ocr_text"
AfterImage(i, o) ==
    IF i + 1 < Len(image_files) THEN "ocr_image" ELSE "ocr_text"

OcrImage ==
    /\ pc = "ocr_image"
    /\ idx < Len(image_files)
    /\ \E o \in EngineOutcomes :
         /\ documents' = ImageStep(documents, idx, image_files[idx + 1], o)
         /\ engine_log' = Append(engine_log, o)
         /\ pc' = AfterImage(idx, o)
    /\ idx' = idx + 1
    /\ UNCHANGED <<loaderVars, native_log, ocr_calls, ocr_documents, ret,
                   temp_dir, image_files, elements, combineVars, obsVars, cloudVars>>

\* line 167
\* (HasText_any: the filter on elem.text.strip() left out, a fault that
\* C20_UniformNonBlank detects)
HasText_any(elem) == TRUE
HasText(elem) == strip(elem.text) # <<>>

\* lines 169-178
TextElementDocs(text_elements) ==
    [k \in 1..Len(text_elements) |->
        Document(text_elements[k].text, k, "unstructured_text", Absent,
                 Absent, text_elements[k].type)]

\* lines 167-178, and the end of the with block
OcrTextElements ==
    /\ pc = "ocr_text"
    /\ LET text_elements == SelectSeq(elements, HasText)
       IN  documents' = IF text_elements # <<>> /\ documents = <<>>
                        THEN TextElementDocs(text_elements)
                        ELSE documents
    /\ temp_dir' = LeaveWith(temp_dir)
    /\ ocr_exit' = "completed"
    /\ pc' = "ocr_return"
    /\ UNCHANGED <<loaderVars, native_log, ocr_calls, ocr_documents, ret,
                   image_files, idx, elements, engine_log, combineVars,
                   ctor_args, dirs_made, cloudVars>>

Next ==
    \/ LoadNativeFirst
    \/ LoadSkipOcr
    \/ LoadCallOcr
    \/ LoadOcrRaised
    \/ OcrImport
    \/ OcrTempDir
    \/ OcrPartition
    \/ OcrImage
    \/ OcrTextElements
    \/ LoadOcrReturned
    \/ LoadNativeFinal

Spec == Init /\ [][Next]_vars

(***************************************************************************)
(* _combine_ocr_results on its own: every list of at most MaxTokens        *)
(* results, combined, then reordered and combined again.                   *)
(***************************************************************************)
Xs == {10, 60}
Ys == {10, 20, 21}
Words == {Hello, World, Top}

OcrTokens ==
    {OcrResult(x, y, w) : x \in Xs, y \in Ys, w \in Words}
    \cup {OcrResult(10, 40, SecondLine)}

TokenLists == UNION {[1..n -> OcrTokens] : n \in 0..MaxTokens}


CombineInit ==
    /\ __init__(FALSE, 0, FALSE)
    /\ ctor_args = [use_ocr_fallback |-> FALSE, engine_ok |-> FALSE]
    /\ NoAdapterCall
    /\ CloudIdle
    /\ pc = "idle"
    /\ native_log = <<>>
    /\ ocr_calls = 0
    /\ ocr_documents = <<>>
    /\ ret = NotYet
    /\ NoFrame
    /\ cpc = "in"
    /\ ocr_results \in TokenLists
    /\ combined = <<>>
    /\ combined_before = <<>>

Combine ==
    /\ cpc = "in"
    /\ combined' = _combine_ocr_results(ocr_results)
    /\ cpc' = "out"
    /\ UNCHANGED <<loaderVars, loadVars, adapterVars, ocr_results, combined_before,
                   obsVars, cloudVars>>

\* the caller passes the same results in another order: two neighbours
\* change places (every reordering is a chain of such exchanges)
Reorder ==
    /\ cpc \in {"out", "reordered"}
    /\ \E k \in 1..(Len(ocr_results) - 1) :
         /\ ocr_results' = [ocr_results EXCEPT ![k] = ocr_results[k + 1],
                                               ![k + 1] = ocr_results[k]]
         /\ combined' = _combine_ocr_results(ocr_results')
    /\ combined_before' = combined
    /\ cpc' = "reordered"
    /\ UNCHANGED <<loaderVars, loadVars, adapterVars, obsVars, cloudVars>>

CombineNext == Combine \/ Reorder

SpecCombine == CombineInit /\ [][CombineNext]_vars

(***************************************************************************)
(* The cloud-first loader, MistralOCRPDFLoader.  Its class is imported by   *)
(* tests/utils/test_ocr_pdf_loader.py and is not part of the sources, so   *)
(* the steps below follow the protocol of the Cloud OCR Adapter and of the  *)
(* cloud-first cascade as the specification gives them, with the values     *)
(* the tests fix: the file id and the extraction_method tags.               *)
(***************************************************************************)
nonCloudVars == <<loaderVars, loadVars, adapterVars, combineVars, obsVars>>

\* mock_upload_response.id
FileId == "test-file-id"

\* the tags the tests expect of a Document made from the OCR response and of
\* the Document made from a failure
CloudMethod == "mistral_ocr"
CloudFailedMethod == "mistral_ocr_failed"
\* the tag of a response with no text in any shape
CloudNoTextMethod == "cloud_ocr_no_text"

CloudErrorTexts == {"API Error", "timeout"}
DeleteErrorTexts == {"delete failed"}

CloudDocument(content, page, method, error, file_id) ==
    [page_content |-> content, source |-> FilePath, page |-> page,
     extraction_method |-> method, error |-> error, file_id |-> file_id]

\* the response of ocr.process: an aggregate text, pages with a text each,
\* a generic content; a field that is None or empty is <<>>
Response(text, pages, content) ==
    [text |-> text, pages |-> pages, content |-> content]
NoResponse == Response(<<>>, <<>>, <<>>)

CloudResponses ==
    { Response(<<"t">>, <<>>, <<>>),
      Response(<<"t">>, << <<"p">>, <<"q">> >>, <<>>),
      Response(<<>>, << <<"p">>, <<"q">> >>, <<>>),
      Response(<<>>, << <<"p">>, <<>>, <<"q">> >>, <<"c">>),
      Response(<<>>, << <<>> >>, <<"c">>),
      NoResponse }

\* one step of the protocol and how it ended
Step(call, ok, error, response) ==
    [call |-> call, ok |-> ok, error |-> error, response |-> response]
StepOutcomes(call, errors) ==
    {Step(call, TRUE, Absent, NoResponse)}
    \cup {Step(call, FALSE, e, NoResponse) : e \in errors}
ProcessOutcomes ==
    {Step("process", TRUE, Absent, r) : r \in CloudResponses}
    \cup {Step("process", FALSE, e, NoResponse) : e \in CloudErrorTexts}

\* step 5: the shapes of the response in their order of priority
RECURSIVE PageDocs(_, _)
PageDocs(pages, file_id) ==
    IF pages = <<>> THEN <<>>
    ELSE LET n == Len(pages)
             before == PageDocs(SubSeq(pages, 1, n - 1), file_id)
         IN  IF pages[n] # <<>>
             THEN Append(before, CloudDocument(pages[n], n, CloudMethod,
                                               Absent, file_id))
             ELSE before

Interpret(r, file_id) ==
    IF r.text # <<>>
    THEN <<CloudDocument(r.text, 0, CloudMethod, Absent, file_id)>>
    ELSE IF PageDocs(r.pages, file_id) # <<>>
    THEN PageDocs(r.pages, file_id)
    ELSE IF r.content # <<>>
    THEN <<CloudDocument(r.content, 0, CloudMethod, Absent, file_id)>>
    ELSE <<CloudDocument(<<>>, 0, CloudNoTextMethod, Absent, file_id)>>

CloudInit ==
    /\ __init__(FALSE, 0, FALSE)
    /\ ctor_args = [use_ocr_fallback |-> FALSE, engine_ok |-> FALSE]
    /\ NoAdapterCall
    /\ pc = "idle"
    /\ native_log = <<>>
    /\ ocr_calls = 0
    /\ ocr_documents = <<>>
    /\ ret = NotYet
    /\ NoFrame
    /\ Idle
    /\ cloud_pc = "upload"
    /\ cloud_file = "None"
    /\ cloud_log = <<>>
    /\ cloud_primary = NotYet
    /\ cloud_ret = NotYet

\* step 1: with no handle there is nothing to delete
CloudUpload ==
    /\ cloud_pc = "upload"
    /\ \E out \in StepOutcomes("upload", CloudErrorTexts) :
         /\ cloud_log' = Append(cloud_log, out)
         /\ IF out.ok
            THEN /\ cloud_file' = FileId
                 /\ cloud_primary' = cloud_primary
                 /\ cloud_pc' = "retrieve"
            ELSE /\ cloud_file' = cloud_file
                 /\ cloud_primary' = Raised(out.error)
                 /\ cloud_pc' = "load"
    /\ UNCHANGED <<cloud_ret, nonCloudVars>>

\* steps 2 to 4: a failure goes to the deletion of step 6
AfterStep(out, next) == IF out.ok THEN next ELSE "delete"
PrimaryAfterStep(out) == IF out.ok THEN cloud_primary ELSE Raised(out.error)

CloudRetrieve ==
    /\ cloud_pc = "retrieve"
    /\ \E out \in StepOutcomes("retrieve", CloudErrorTexts) :
         /\ cloud_log' = Append(cloud_log, out)
         /\ cloud_primary' = PrimaryAfterStep(out)
         /\ cloud_pc' = AfterStep(out, "signed_url")
    /\ UNCHANGED <<cloud_file, cloud_ret, nonCloudVars>>

CloudSignedUrl ==
    /\ cloud_pc = "signed_url"
    /\ \E out \in StepOutcomes("get_signed_url", CloudErrorTexts) :
         /\ cloud_log' = Append(cloud_log, out)
         /\ cloud_primary' = PrimaryAfterStep(out)
         /\ cloud_pc' = AfterStep(out, "process")
    /\ UNCHANGED <<cloud_file, cloud_ret, nonCloudVars>>

CloudProcess ==
    /\ cloud_pc = "process"
    /\ \E out \in ProcessOutcomes :
         /\ cloud_log' = Append(cloud_log, out)
         /\ cloud_primary' = PrimaryAfterStep(out)
         /\ cloud_pc' = AfterStep(out, "interpret")
    /\ UNCHANGED <<cloud_file, cloud_ret, nonCloudVars>>

\* step 5, on the response of step 4
CloudInterpret ==
    /\ cloud_pc = "interpret"
    /\ \E out \in StepOutcomes("interpret", CloudErrorTexts) :
         /\ cloud_log' = Append(cloud_log, out)
         /\ cloud_primary' =
              IF out.ok
              THEN Returned(Interpret(cloud_log[Len(cloud_log)].response,
                                      cloud_file))
              ELSE Raised(out.error)
    /\ cloud_pc' = "delete"
    /\ UNCHANGED <<cloud_file, cloud_ret, nonCloudVars>>

\* step 6: what the adapter gives its caller after the deletion ended as out
\* (AfterDelete_masks: the failure of the deletion takes the place of the
\* result, a fault that C15_DeleteOncePerUpload detects)
AfterDelete_masks(primary, out) ==
    IF out.ok THEN primary ELSE Raised(out.error)
AfterDelete(primary, out) == primary

CloudDelete ==
    /\ cloud_pc = "delete"
    /\ cloud_file # "None"
    /\ \E out \in StepOutcomes("delete", DeleteErrorTexts) :
         /\ cloud_log' = Append(cloud_log, out)
         /\ cloud_file' = IF out.ok THEN "None" ELSE cloud_file
         /\ cloud_primary' = AfterDelete(cloud_primary, out)
    /\ cloud_pc' = "load"
    /\ UNCHANGED <<cloud_ret, nonCloudVars>>

\* the cloud-first cascade: the adapter's Documents, or one Document made of
\* its failure
CloudFailedDocument(e) ==
    CloudDocument(<<>>, 0, CloudFailedMethod, e, Absent)

\* (CloudLoadResult_propagates: the failure let through to the caller, a
\* fault that C16_UploadFailureDocument detects)
CloudLoadResult_propagates(primary) == primary
CloudLoadResult(primary) ==
    IF primary.kind = "returned"
    THEN primary
    ELSE Returned(<<CloudFailedDocument(primary.error)>>)

CloudLoad ==
    /\ cloud_pc = "load"
    /\ cloud_ret' = CloudLoadResult(cloud_primary)
    /\ cloud_pc' = "done"
    /\ UNCHANGED <<cloud_file, cloud_log, cloud_primary, nonCloudVars>>

CloudNext ==
    \/ CloudUpload
    \/ CloudRetrieve
    \/ CloudSignedUrl
    \/ CloudProcess
    \/ CloudInterpret
    \/ CloudDelete
    \/ CloudLoad

SpecCloud == CloudInit /\ [][CloudNext]_vars

(***************************************************************************)
(* Properties of load.                                                     *)
(***************************************************************************)
Done == pc = "done"

FirstReturned == Len(native_log) >= 1 /\ native_log[1].kind = "returned"

FirstAccepted ==
    FirstReturned /\ total_text_length(native_log[1].docs) >= min_text_threshold

FinalRan == Len(native_log) = 2

\* C1: load never raises.  Whatever the native extractor does on the first and
\* on the final attempt and whatever the OCR adapter does, load ends by
\* returning a sequence of Documents, and when the final attempt raises the
\* failure is a returned Document tagged "failed", not an exception.
C1_LoadNeverRaises ==
    /\ ret.kind # "raised"
    /\ Done => ret.kind = "returned"
    /\ (Done /\ FinalRan /\ native_log[2].kind = "raised")
         => /\ ret.kind = "returned"
            /\ Len(ret.docs) = 1
            /\ ret.docs[1].extraction_method = "failed"

C1_Witness ==
    /\ Done
    /\ FinalRan
    /\ native_log[1].kind = "raised"
    /\ native_log[2].kind = "raised"
    /\ ocr_calls = 1
    /\ ret.kind = "returned"

\* C2: every sequence load returns holds at least one Document.
C2_ReturnsNonEmpty ==
    Done => (ret.kind = "returned" /\ ret.docs # <<>>)

\* C3: a first native result whose stripped lengths sum to at least
\* min_text_threshold (equality included) is returned as it is, with no call
\* of the OCR adapter and no second native call; a result below the threshold
\* is not returned at that step.
C3_SufficientNativeAccepted ==
    FirstReturned =>
        IF total_text_length(native_log[1].docs) >= min_text_threshold
        THEN /\ Done
             /\ ret = Returned(native_log[1].docs)
             /\ ocr_calls = 0
             /\ Len(native_log) = 1
        ELSE ~(Done /\ Len(native_log) = 1 /\ ocr_calls = 0)

C3_Witness ==
    /\ Done
    /\ FirstReturned
    /\ min_text_threshold > 0
    /\ total_text_length(native_log[1].docs) = min_text_threshold
    /\ ret = Returned(native_log[1].docs)
    /\ ocr_calls = 0

\* C4: with the native text below the threshold and the OCR fallback enabled
\* with an engine, the OCR adapter is run; when it gives at least one Document
\* load returns exactly that result and native extraction is not run again.
C4_OcrResultAccepted ==
    /\ ( /\ FirstReturned
         /\ ~FirstAccepted
         /\ use_ocr_fallback
         /\ ocr_engine = "RapidOCR"
         /\ pc # "ocr_fallback" )
       => ocr_calls = 1
    /\ ocr_documents # <<>>
       => /\ Done
          /\ ret = Returned(ocr_documents)
          /\ Len(native_log) = 1
    /\ (pc = "ocr_return" /\ documents # <<>>) => Len(native_log) = 1
    /\ (pc = "final" /\ ocr_calls = 1) => ocr_documents = <<>>

C4_Witness ==
    /\ Done
    /\ FirstReturned
    /\ ~FirstAccepted
    /\ ocr_calls = 1
    /\ ocr_documents # <<>>
    /\ ret = Returned(ocr_documents)
    /\ Len(native_log) = 1

\* C5: when the first native result was not accepted and the OCR step gave no
\* accepted result (disabled, no engine, no documents, or raised), native
\* extraction is run once more, and when it returns, its result is what load
\* returns, whatever its length.
C5_FinalNativeRerun ==
    (Done /\ ~FirstAccepted /\ ocr_documents = <<>>)
        => /\ FinalRan
           /\ native_log[2].kind = "returned"
                => ret = Returned(native_log[2].docs)

C5_Witness ==
    /\ Done
    /\ ocr_calls = 1
    /\ ocr_documents = <<>>
    /\ FinalRan
    /\ native_log[2].kind = "returned"
    /\ native_log[2].docs # <<>>
    /\ total_text_length(native_log[2].docs) < min_text_threshold
    /\ ret = Returned(native_log[2].docs)

\* C6: when native extraction raises in the final attempt, load returns one
\* Document with empty content, source the file path, page 0,
\* extraction_method "failed" and error the text of that exception; a
\* Document tagged "failed" is returned in no other case.
C6_FailedPlaceholder ==
    Done =>
        /\ (FinalRan /\ native_log[2].kind = "raised")
             => /\ ret.kind = "returned"
                /\ Len(ret.docs) = 1
                /\ ret.docs[1].page_content = <<>>
                /\ ret.docs[1].source = FilePath
                /\ ret.docs[1].page = 0
                /\ ret.docs[1].extraction_method = "failed"
                /\ ret.docs[1].error = native_log[2].error
        /\ (\E k \in 1..Len(ret.docs) : ret.docs[k].extraction_method = "failed")
             => (FinalRan /\ native_log[2].kind = "raised")

C6_Witness ==
    /\ Done
    /\ FinalRan
    /\ native_log[1] = Raised("e1")
    /\ native_log[2] = Raised("e2")
    /\ ret.docs[1].error = "e2"

\* C7 as stated: every Document load returns has a source and an
\* extraction_method among native, cloud_ocr, cloud_ocr_failed,
\* cloud_ocr_no_text, local_ocr, unstructured_text, failed.
EnumeratedMethods ==
    {"native", "cloud_ocr", "cloud_ocr_failed", "cloud_ocr_no_text",
     "local_ocr", "unstructured_text", "failed"}

C7_EnumeratedMethod ==
    Done =>
        \A k \in 1..Len(ret.docs) :
            /\ ret.docs[k].source # Absent
            /\ ret.docs[k].extraction_method \in EnumeratedMethods

\* C7 as amended: every Document load returns has a source; the Documents the
\* loader builds are tagged "ocr" (from an image), "unstructured_text" or
\* "failed", and a Document with no extraction_method is one of the native
\* extractor's, returned as the extractor gave it.
C7_MethodsOfTheCode ==
    Done =>
        \A k \in 1..Len(ret.docs) :
            /\ ret.docs[k].source # Absent
            /\ ret.docs[k].extraction_method
                 \in {Absent, "ocr", "unstructured_text", "failed"}
            /\ ret.docs[k].extraction_method = Absent
                 => /\ native_log[Len(native_log)].kind = "returned"
                    /\ ret.docs = native_log[Len(native_log)].docs
                    /\ ocr_documents = <<>>
            /\ ret.docs[k].extraction_method \in {"ocr", "unstructured_text"}
                 => ret.docs = ocr_documents

C7_Witness ==
    /\ Done
    /\ Len(ret.docs) = 2
    /\ ret.docs[1].extraction_method = "ocr"
    /\ ret.docs[2].extraction_method = "ocr"

(***************************************************************************)
(* Properties of _combine_ocr_results, read off its output string.         *)
(***************************************************************************)
Combined == cpc \in {"out", "reordered"}

RECURSIVE SplitOn(_, _)
SplitOn(s, c) ==
    IF \A k \in 1..Len(s) : s[k] # c THEN <<s>>
    ELSE LET k == CHOOSE i \in 1..Len(s) :
                      s[i] = c /\ \A j \in 1..(i - 1) : s[j] # c
         IN  <<SubSeq(s, 1, k - 1)>> \o SplitOn(SubSeq(s, k + 1, Len(s)), c)

\* the lines of an output, each as the sequence of its words
OutputLines(out) ==
    LET lines == SplitOn(out, "\n")
    IN  [k \in 1..Len(lines) |-> SplitOn(lines[k], " ")]

\* the lines, of the lines L of an output, on which the word occurs
LinesWith(L, word) ==
    {k \in 1..Len(L) : \E w \in 1..Len(L[k]) : L[k][w] = word}

\* a token list whose texts are single words, no two alike: each token is
\* then found in the output by its text
Traceable(results) ==
    /\ \A i \in 1..Len(results) :
         \A k \in 1..Len(results[i].text) : results[i].text[k] \notin Whitespace
    /\ \A i, j \in 1..Len(results) : i # j => results[i].text # results[j].text

SameLine(L, a, b) == LinesWith(L, a.text) \cap LinesWith(L, b.text) # {}

\* the token's text is the first word of a line
IsLineHead(L, a) == \E k \in 1..Len(L) : L[k][1] = a.text

\* C8: every reordering of the input list gives the same output.
C8_OrderIndependent ==
    cpc = "reordered" => combined = combined_before

\* C9 as stated: two tokens are on the same output line when their top-Y
\* differ by at most 10, and on different lines when they differ by more.
C9_PairwiseTolerance ==
    (Combined /\ Traceable(ocr_results)) =>
        LET L == OutputLines(combined)
        IN  \A i, j \in 1..Len(ocr_results) :
                LET a == ocr_results[i]
                    b == ocr_results[j]
                IN  /\ LinesWith(L, a.text) # {}
                    /\ abs(a.y - b.y) <= 10 => SameLine(L, a, b)
                    /\ abs(a.y - b.y) > 10 => ~SameLine(L, a, b)

\* C9 as amended: the tolerance is measured from the first token of a line.
\* A token is on the line of a line's first token exactly when its top-Y is
\* at most 10 above that token's; so two tokens whose top-Y differ by more
\* than 10 are on different lines, and two tokens alone are on one line
\* exactly when they differ by at most 10.
C9_ToleranceFromLineHead ==
    (Combined /\ Traceable(ocr_results)) =>
        LET L == OutputLines(combined)
        IN  \A i, j \in 1..Len(ocr_results) :
                LET a == ocr_results[i]
                    b == ocr_results[j]
                IN  /\ Cardinality(LinesWith(L, a.text)) = 1
                    /\ IsLineHead(L, a)
                         => (SameLine(L, a, b)
                               <=> (b.y >= a.y /\ b.y - a.y <= 10))
                    /\ abs(a.y - b.y) > 10 => ~SameLine(L, a, b)
                    /\ Len(ocr_results) = 2
                         => (SameLine(L, a, b) <=> abs(a.y - b.y) <= 10)

C9_Witness ==
    /\ Combined
    /\ Traceable(ocr_results)
    /\ Len(ocr_results) = 3
    /\ \E i, j, k \in 1..3 :
         /\ ocr_results[i].y = 10
         /\ ocr_results[j].y = 20
         /\ ocr_results[k].y = 21
         /\ SameLine(OutputLines(combined), ocr_results[i], ocr_results[j])
         /\ ~SameLine(OutputLines(combined), ocr_results[j], ocr_results[k])

\* C10: the output is the reference reconstruction.  The empty list gives the
\* empty string; otherwise, with the tokens in an order ascending by
\* (top-Y, top-X), a token starts a new line exactly when its top-Y differs
\* by more than 10 from the top-Y of the first token of the current line,
\* every text appears once, a space separates the texts of a line and a
\* newline separates the lines.
\* the orderings of n things
AllOrderings ==
    [n \in 0..MaxTokens |->
        {p \in [1..n -> 1..n] : \A i, j \in 1..n : i # j => p[i] # p[j]}]

KeyAscending(s) ==
    \A k \in 1..(Len(s) - 1) :
        \/ s[k].y < s[k + 1].y
        \/ s[k].y = s[k + 1].y /\ s[k].x <= s[k + 1].x

\* the position of the first token of the line that token k of s is on
RECURSIVE LineHead(_, _)
LineHead(s, k) ==
    IF k = 1 THEN 1
    ELSE LET h == LineHead(s, k - 1)
         IN  IF s[k].y - s[h].y > 10 \/ s[h].y - s[k].y > 10 THEN k ELSE h

RECURSIVE Render(_, _)
Render(s, k) ==
    IF k = 0 THEN <<>>
    ELSE Render(s, k - 1)
         \o (IF k = 1 THEN <<>> ELSE IF LineHead(s, k) = k THEN <<"\n">> ELSE <<" ">>)
         \o s[k].text

IsReference(results, out) ==
    IF results = <<>> THEN out = <<>>
    ELSE \E p \in AllOrderings[Len(results)] :
            LET s == [k \in 1..Len(results) |-> results[p[k]]]
            IN  KeyAscending(s) /\ out = Render(s, Len(s))

C10_EqualsReference ==
    Combined => IsReference(ocr_results, combined)

C10_Witness ==
    /\ cpc = "out"
    /\ ocr_results = << OcrResult(10, 10, Hello), OcrResult(60, 10, World),
                        OcrResult(10, 40, SecondLine) >>
    /\ combined = Hello \o <<" ">> \o World \o <<"\n">> \o SecondLine

(***************************************************************************)
(* Properties of _extract_with_ocr.                                        *)
(***************************************************************************)
\* the loop over the images is over: the adapter is at the text elements or
\* has handed its result to load
ImagesDone == pc \in {"ocr_text", "ocr_return"}

\* the engine returned a result for the image and the text reconstructed
\* from it is not blank
Yields(o) ==
    /\ o.kind = "returned"
    /\ o.result # <<>>
    /\ strip(_combine_ocr_results(o.result)) # <<>>

\* the positions of the adapter's result that hold a Document of image f
DocsOfImage(f) ==
    {j \in 1..Len(documents) : /\ documents[j].extraction_method = "ocr"
                                /\ documents[j].image_source = f}

\* C11: a failure of the OCR engine on one image skips only that image.  When
\* the loop over the sorted images is over, the engine has been called on
\* every one of them, whatever it did on the others, and the result holds
\* exactly one Document for each image whose OCR returned text that is not
\* blank, and none for any other image.
C11_FailureSkipsOneImage ==
    ImagesDone =>
        /\ Len(engine_log) = Len(image_files)
        /\ \A k \in 1..Len(image_files) :
             Cardinality(DocsOfImage(image_files[k]))
                 = IF Yields(engine_log[k]) THEN 1 ELSE 0

\* three images; the engine raises on the second one, and the first and the
\* third each have their Document
C11_Witness ==
    /\ pc = "ocr_return"
    /\ Len(image_files) = 3
    /\ engine_log[2].kind = "raised"
    /\ Yields(engine_log[1]) /\ Yields(engine_log[3])
    /\ Len(documents) = 2
    /\ DocsOfImage(image_files[1]) = {1}
    /\ DocsOfImage(image_files[3]) = {2}

\* load returned what the final native attempt gave: its Documents, or the
\* placeholder made of its exception
ReturnsFinalNative ==
    /\ FinalRan
    /\ native_log[2].kind = "returned" => ret = Returned(native_log[2].docs)
    /\ native_log[2].kind = "raised"
         => /\ ret.kind = "returned"
            /\ Len(ret.docs) = 1
            /\ ret.docs[1].page_content = <<>>
            /\ ret.docs[1].extraction_method = "failed"
            /\ ret.docs[1].error = native_log[2].error

\* C12: when the import of the image extraction fails, the adapter hands
\* load an empty sequence and no exception, and load goes on as it does when
\* the adapter ran to its end and found nothing: in both cases the final
\* native attempt is made and load returns what that attempt gave.
C12_UnavailableIsEmpty ==
    /\ (ocr_exit = "unavailable" /\ pc = "ocr_return") => documents = <<>>
    /\ (ocr_exit = "unavailable" /\ pc \in {"final", "done"})
         => ocr_documents = <<>>
    /\ ocr_exit = "unavailable" => ret.kind # "raised"
    /\ (Done /\ ocr_exit = "unavailable") => ReturnsFinalNative
    /\ (Done /\ ocr_exit = "completed" /\ ocr_documents = <<>>)
         => ReturnsFinalNative

C12_Witness ==
    /\ Done
    /\ ocr_exit = "unavailable"
    /\ ocr_calls = 1
    /\ dirs_made = 0
    /\ FinalRan
    /\ native_log[2].kind = "returned"
    /\ native_log[2].docs # <<>>
    /\ ret = Returned(native_log[2].docs)

\* _extract_with_ocr has returned to load
AdapterReturned == ocr_calls = 1 /\ pc \in {"ocr_return", "final", "done"}

\* C13: the temporary directory of one local OCR extraction is gone on every
\* exit of the call.  Whenever _extract_with_ocr has returned, after a
\* completed run, after an image whose OCR raised, or after partition_pdf
\* raised inside the directory, no directory is held; one call creates at
\* most one directory, and holds it only between its creation and the end of
\* the with block.
C13_TempDirReleased ==
    /\ AdapterReturned => ~temp_dir
    /\ dirs_made <= 1
    /\ temp_dir => /\ dirs_made = 1
                   /\ pc \in {"ocr_partition", "ocr_image", "ocr_text"}

\* partition_pdf raised after the directory was created, and load is over
C13_Witness ==
    /\ Done
    /\ dirs_made = 1
    /\ ocr_exit = "partition_raised"
    /\ ~temp_dir

\* C14 as stated: in a result of the local OCR adapter with more than one
\* Document, the Document at position k has page k, also when images were
\* skipped.
C14_PageIsPosition ==
    (pc = "ocr_return" /\ Len(documents) >= 2)
        => \A k \in 1..Len(documents) : documents[k].page = k

\* C14: in the result of the local OCR adapter the page of an image Document
\* is the 1-based place of its image among the sorted images, skipped images
\* counted: pages increase along the result, the page at position k is at
\* least k, and it is k when every image up to it gave a Document.  The page
\* of an unstructured_text Document is its position among the non-blank text
\* elements, which is its position in the result.
C14_PageIsImageIndex ==
    pc = "ocr_return" =>
        \A k \in 1..Len(documents) :
            IF documents[k].extraction_method = "ocr"
            THEN LET page == documents[k].page
                 IN  /\ page \in 1..Len(image_files)
                     /\ image_files[page] = documents[k].image_source
                     /\ page >= k
                     /\ k > 1 => documents[k - 1].page < page
                     /\ (\A i \in 1..page : Yields(engine_log[i])) => page = k
            ELSE documents[k].page = k

\* the first of three images gave no Document: the two Documents of the
\* result have pages 2 and 3
C14_Witness ==
    /\ pc = "ocr_return"
    /\ Len(image_files) = 3
    /\ ~Yields(engine_log[1])
    /\ Len(documents) = 2
    /\ documents[1].page = 2
    /\ documents[2].page = 3

(***************************************************************************)
(* More properties of load.                                                *)
(***************************************************************************)
\* C17: one call of load makes no retries.  The native extractor is called
\* at most twice and the local OCR adapter at most once; when the first
\* native result is sufficient, the native extractor has been called once and
\* the adapter not at all; and the second native call is made only after the
\* first result was not accepted and the OCR step was skipped or gave no
\* accepted result.
C17_NoRetries ==
    /\ Len(native_log) <= 2
    /\ ocr_calls <= 1
    /\ dirs_made <= ocr_calls
    /\ FirstAccepted => (Len(native_log) = 1 /\ ocr_calls = 0 /\ Done)
    /\ FinalRan => /\ ~FirstAccepted
                   /\ ocr_documents = <<>>
                   /\ ocr_calls = 0 => ~OcrEnabled
                   /\ Done

\* both native calls and the one OCR call were made
C17_Witness ==
    /\ Done
    /\ Len(native_log) = 2
    /\ ocr_calls = 1
    /\ ocr_exit = "completed"
    /\ ocr_documents = <<>>

\* the loader was built with use_ocr_fallback false, or the constructor of
\* the OCR engine raised
BuiltWithoutOcr == ~ctor_args.use_ocr_fallback \/ ~ctor_args.engine_ok

\* C18: when the OCR engine could not be initialized in the constructor, or
\* use_ocr_fallback was passed as false, the loader exists with OCR fallback
\* disabled, and load never calls the local OCR adapter: after a first native
\* attempt that raised or gave too little text it makes the final native
\* attempt.
C18_DisabledNeverCallsOcr ==
    BuiltWithoutOcr =>
        /\ ~use_ocr_fallback
        /\ ocr_engine = "None"
        /\ ocr_calls = 0
        /\ ocr_exit = "none"
        /\ dirs_made = 0
        /\ pc \in {"load", "ocr_fallback", "final", "done"}
        /\ (Done /\ ~FirstAccepted) => FinalRan

\* fallback was asked for, the engine constructor raised, the first native
\* attempt raised, and load ended with the final attempt and no OCR call
C18_Witness ==
    /\ Done
    /\ ctor_args.use_ocr_fallback
    /\ ~ctor_args.engine_ok
    /\ native_log[1].kind = "raised"
    /\ FinalRan
    /\ ocr_calls = 0

FirstRaised == Len(native_log) >= 1 /\ native_log[1].kind = "raised"

\* the steps after the first attempt are over
PastOcrStep == pc \in {"final", "done"}

\* C19: a first native attempt that raises is treated as one that gave too
\* little text.  load goes on to the local OCR step, taken exactly when
\* fallback is enabled and the engine exists, and, unless the adapter's
\* result is accepted, to the final native attempt; the exception of the
\* first attempt never reaches the caller, and a "failed" Document is
\* returned only when the final attempt raised as well.
C19_FirstRaiseFallsBack ==
    FirstRaised =>
        /\ ret.kind # "raised"
        /\ Len(native_log) = 1 => pc # "done" \/ ret = Returned(ocr_documents)
        /\ PastOcrStep => (ocr_calls = 1 <=> OcrEnabled)
        /\ Done => \/ /\ ocr_documents # <<>>
                      /\ ret = Returned(ocr_documents)
                      /\ ~FinalRan
                   \/ /\ ocr_documents = <<>>
                      /\ ReturnsFinalNative
        /\ (Done /\ \E k \in 1..Len(ret.docs) :
                       ret.docs[k].extraction_method = "failed")
             => (FinalRan /\ native_log[2].kind = "raised")

\* the first attempt raised, the adapter ran and found nothing, and the
\* final attempt's Documents were returned
C19_Witness ==
    /\ Done
    /\ FirstRaised
    /\ ocr_calls = 1
    /\ ocr_exit = "completed"
    /\ FinalRan
    /\ native_log[2].kind = "returned"
    /\ native_log[2].docs # <<>>
    /\ ret = Returned(native_log[2].docs)

(***************************************************************************)
(* More properties of _extract_with_ocr.                                   *)
(***************************************************************************)
AllTagged(docs, method) ==
    \A k \in 1..Len(docs) : docs[k].extraction_method = method

\* C20: the result of the local OCR adapter is of one kind and has no blank
\* Document.  It is made of "ocr" Documents only or of "unstructured_text"
\* Documents only; unstructured_text Documents are in it only when no image
\* gave an OCR Document; and the content of every Document in it has a
\* character that is not white space.
C20_UniformNonBlank ==
    pc = "ocr_return" =>
        /\ AllTagged(documents, "ocr") \/ AllTagged(documents, "unstructured_text")
        /\ (\E k \in 1..Len(documents) :
                documents[k].extraction_method = "unstructured_text")
             => \A i \in 1..Len(engine_log) : ~Yields(engine_log[i])
        /\ \A k \in 1..Len(documents) : strip(documents[k].page_content) # <<>>

\* images were extracted and none gave text; of two text elements the blank
\* one was dropped and the other one is the result
C20_Witness ==
    /\ pc = "ocr_return"
    /\ Len(image_files) >= 1
    /\ Len(elements) = 2
    /\ \E k \in 1..2 : strip(elements[k].text) = <<>>
    /\ Len(documents) = 1
    /\ documents[1].extraction_method = "unstructured_text"

(***************************************************************************)
(* Properties of the cloud-first loader.                                   *)
(***************************************************************************)
CallsOf(call) == {k \in 1..Len(cloud_log) : cloud_log[k].call = call}

UploadSucceeded == \E k \in CallsOf("upload") : cloud_log[k].ok

\* the steps 1 to 5 that failed
FailedSteps ==
    {k \in 1..Len(cloud_log) :
        cloud_log[k].call # "delete" /\ ~cloud_log[k].ok}

\* the adapter has handed its result or its error to load
CloudAdapterOver == cloud_pc \in {"load", "done"}

\* C15: the uploaded remote file is deleted once per successful upload.  When
\* the adapter is over after a successful upload, the deletion has been
\* attempted exactly once, as the last step, whether retrieval, signed URL,
\* processing and interpretation succeeded or one of them failed; with no
\* successful upload no deletion is attempted; and whether the deletion
\* succeeds or fails, the adapter's result is that of steps 1 to 5: the error
\* of the step that failed, or else the Documents read from the response.
C15_DeleteOncePerUpload ==
    /\ Cardinality(CallsOf("delete")) <= 1
    /\ Cardinality(CallsOf("upload")) <= 1
    /\ ~UploadSucceeded => CallsOf("delete") = {}
    /\ (CloudAdapterOver /\ UploadSucceeded)
         => CallsOf("delete") = {Len(cloud_log)}
    /\ CloudAdapterOver =>
         IF FailedSteps = {}
         THEN /\ cloud_primary.kind = "returned"
              /\ \E k \in CallsOf("process") :
                   cloud_primary.docs = Interpret(cloud_log[k].response, FileId)
         ELSE /\ cloud_primary.kind = "raised"
              /\ \A k \in FailedSteps : cloud_primary.error = cloud_log[k].error

\* processing failed after a successful upload, the deletion was attempted
\* and failed too, and the adapter's error is that of the processing
C15_Witness ==
    /\ cloud_pc = "done"
    /\ UploadSucceeded
    /\ \E k \in CallsOf("process") : ~cloud_log[k].ok
    /\ ~cloud_log[Len(cloud_log)].ok
    /\ cloud_log[Len(cloud_log)].call = "delete"
    /\ cloud_primary = Raised("API Error")

UploadFailed == \E k \in CallsOf("upload") : ~cloud_log[k].ok

\* what load returns after a failed upload, with tag as the
\* extraction_method of the failure
UploadFailureDocument(tag) ==
    (cloud_pc = "done" /\ UploadFailed) =>
        /\ cloud_ret.kind = "returned"
        /\ Len(cloud_ret.docs) = 1
        /\ cloud_ret.docs[1].page_content = <<>>
        /\ cloud_ret.docs[1].extraction_method = tag
        /\ cloud_ret.docs[1].error = cloud_log[1].error
        /\ Len(cloud_log) = 1
        /\ native_log = <<>>
        /\ ocr_calls = 0

\* C16 as stated: after a failed upload load returns one Document with empty
\* content, extraction_method "cloud_ocr_failed" and the raised message as
\* error; it does not raise, fall back to native extraction or retry.
C16_CloudOcrFailedTag == UploadFailureDocument("cloud_ocr_failed")

\* C16: after a failed upload load returns one Document with empty content,
\* extraction_method "mistral_ocr_failed" and the raised message as error;
\* it does not raise, it makes no other remote call and no second upload,
\* and it does not call native extraction.
C16_UploadFailureDocument == UploadFailureDocument("mistral_ocr_failed")

C16_Witness ==
    /\ cloud_pc = "done"
    /\ cloud_log = <<Step("upload", FALSE, "API Error", NoResponse)>>
    /\ cloud_ret.docs[1].error = "API Error"

====
